---- MODULE Spec2Model ----
(***************************************************************************)
(* A model of the Blimey local-surrogate explanation engine of             *)
(* fat-forensics (fatf/transparency/models/blimey.py) and of the array and *)
(* model validation helpers it relies on (fatf/utils/validation.py).       *)
(*                                                                         *)
(* Python values are tagged records [t |-> type name, v |-> value].  A     *)
(* numpy array is described by its shape, the kind of its base dtype, the  *)
(* kinds of its named fields (empty for a plain array; the fields are      *)
(* named f0, f1, ...) and, for a data row or a neighbourhood, its cell     *)
(* values.                                                                 *)
(*                                                                         *)
(* engine is the Blimey object (NoEngine before construction and after a   *)
(* constructor that raised), last the last operation with its arguments    *)
(* and outcome, warnings and calls the warnings it emitted and the calls   *)
(* it made to its collaborators, history the explain_instance calls made   *)
(* on the engine since it was built, threads the frames (position and      *)
(* local names) of the explain_instance calls that run concurrently.       *)
(***************************************************************************)
EXTENDS Integers, Sequences, FiniteSets, TLC

VARIABLES engine, last, warnings, calls, history, threads

vars == <<engine, last, warnings, calls, history, threads>>

----------------------------------------------------------------------------
(* Bounds of the model.                                                    *)

MaxCols == 2
MaxClasses == 2
MaxDeclared == 2
MaxSamples == 2
MaxVal == 2
MaxArity == 3

----------------------------------------------------------------------------
(* Python values.                                                          *)

PyNone == [t |-> "NoneType", v |-> 0]
PyInt(i) == [t |-> "int", v |-> i]
PyBool(b) == [t |-> "bool", v |-> IF b THEN 1 ELSE 0]
PyFloat(i) == [t |-> "float", v |-> i]
PyStr(s) == [t |-> "str", v |-> s]
PyTuple(s) == [t |-> "tuple", v |-> s]
PyList(s) == [t |-> "list", v |-> s]

\* isinstance(x, int): bool is a subclass of int.
IsInstanceInt(x) == x.t \in {"int", "bool"}
IsInstanceStr(x) == x.t = "str"
IsInstanceList(x) == x.t = "list"

Range(s) == {s[i] : i \in 1..Len(s)}

\* The subsequence of s at the positions of the set pos, in order.
RECURSIVE SubSeqAt(_, _, _)
SubSeqAt(s, pos, i) ==
    IF i > Len(s) THEN <<>>
    ELSE (IF i \in pos THEN <<s[i]>> ELSE <<>>) \o SubSeqAt(s, pos, i + 1)

\* The sequences of length 0..n over the set S.
SeqsUpTo(S, n) == UNION {[1..k -> S] : k \in 0..n}

----------------------------------------------------------------------------
(* numpy arrays.                                                           *)

Array(shape, kind, fields, vals) ==
    [shape |-> shape, kind |-> kind, fields |-> fields, vals |-> vals]

\* array.dtype.names of a structured array.
FieldName(i) == "f" \o ToString(i)
DtypeNames(array) == [i \in 1..Len(array.fields) |-> FieldName(i - 1)]

_NUMPY_NUMERICAL_KINDS == {"?", "b", "u", "i", "f", "c"}
_NUMPY_TEXTUAL_KINDS == {"S", "U"}

\* The kind given here to a field whose dtype is itself structured
\* (dtype.names is not None).
StructuredKind == "record"

is_numerical_dtype(kind) == kind \in _NUMPY_NUMERICAL_KINDS

\* Lines 60-62: is_numerical_dtype raises ValueError for a structured dtype.
is_numerical_dtype_raises(kind) == kind = StructuredKind

is_structured_array(array) == Len(array.fields) # 0

is_numerical_array(array) ==
    IF is_structured_array(array)
    THEN \A i \in 1..Len(array.fields) : is_numerical_dtype(array.fields[i])
    ELSE is_numerical_dtype(array.kind)

is_1d_array(array) ==
    IF is_structured_array(array)
    THEN FALSE
    ELSE Len(array.shape) = 1

is_1d_array_warns(array) ==
    /\ is_structured_array(array)
    /\ Len(array.fields) = 1
    /\ Len(array.shape) = 1

is_2d_array(array) ==
    IF is_structured_array(array)
    THEN IF Len(array.shape) = 2 /\ Len(array.fields) = 1 THEN FALSE
         ELSE IF Len(array.shape) = 1 /\ Len(array.fields) > 1 THEN TRUE
         ELSE FALSE
    ELSE Len(array.shape) = 2

is_2d_array_warns(array) ==
    /\ is_structured_array(array)
    /\ Len(array.shape) = 2
    /\ Len(array.fields) = 1

\* Every cell is of a numerical or a textual type.
is_base_array(array) ==
    IF is_structured_array(array)
    THEN \A i \in 1..Len(array.fields) :
            array.fields[i] \in _NUMPY_NUMERICAL_KINDS \cup _NUMPY_TEXTUAL_KINDS
    ELSE array.kind \in _NUMPY_NUMERICAL_KINDS \cup _NUMPY_TEXTUAL_KINDS

\* The two arrays have the same dtype: field by field for structured arrays.
are_similar_dtype_arrays(array_a, array_b) ==
    /\ array_a.kind = array_b.kind
    /\ array_a.fields = array_b.fields

\* The column indices of a 2-dimensional array, in column order.
ColumnIndices(array) ==
    IF is_structured_array(array)
    THEN [i \in 1..Len(array.fields) |-> PyStr(FieldName(i - 1))]
    ELSE [i \in 1..array.shape[2] |-> PyInt(i - 1)]

\* (numerical_indices, non_numerical_indices) of a 2-dimensional array.
indices_by_type(array) ==
    IF is_structured_array(array)
    THEN LET num == {i \in 1..Len(array.fields) :
                        is_numerical_dtype(array.fields[i])}
             all == ColumnIndices(array)
         IN  <<SubSeqAt(all, num, 1),
               SubSeqAt(all, (1..Len(array.fields)) \ num, 1)>>
    ELSE IF is_numerical_array(array)
         THEN <<ColumnIndices(array), <<>>>>
         ELSE <<<<>>, ColumnIndices(array)>>

\* The outcome of the call indices_by_type(array) on any array.
indices_by_type_outcome(array) ==
    LET warns == IF is_2d_array_warns(array)
                 THEN <<[category |-> "UserWarning", source |-> "is_2d_array",
                         names |-> {}]>>
                 ELSE <<>>
    IN  IF ~is_2d_array(array)
        THEN [error |-> "IncorrectShapeError", ret |-> PyNone,
              warnings |-> warns]
        ELSE IF /\ is_structured_array(array)
                /\ \E i \in 1..Len(array.fields) :
                      is_numerical_dtype_raises(array.fields[i])
        THEN [error |-> "ValueError", ret |-> PyNone, warnings |-> warns]
        ELSE [error |-> "None", ret |-> PyTuple(indices_by_type(array)),
              warnings |-> warns]

\* The indices (a list) that are not columns of the 2-dimensional array.
get_invalid_indices(array, indices) ==
    LET array_indices ==
            IF is_structured_array(array)
            THEN {PyStr(n) : n \in Range(DtypeNames(array))}
            ELSE {PyInt(i) : i \in 0..(array.shape[2] - 1)}
    IN  Range(indices) \ array_indices

----------------------------------------------------------------------------
(* Predictive models: each method is absent (Missing) or has a number of   *)
(* parameters without a default value.                                     *)

Missing == -1

Model(fit, predict, predict_proba, n_out) ==
    [fit |-> fit, predict |-> predict, predict_proba |-> predict_proba,
     n_out |-> n_out]

RequiredParams == [fit |-> 2, predict |-> 1, predict_proba |-> 1]

methods(require_probabilities) ==
    IF require_probabilities
    THEN <<"fit", "predict", "predict_proba">>
    ELSE <<"fit", "predict">>

\* The arity test as the docstring words it ("at least").
HasAtLeastRequiredParamN(required_param_n, method) ==
    required_param_n >= RequiredParams[method]

\* The arity test of one method that the model has.
HasRequiredParamN(required_param_n, method) ==
    required_param_n = RequiredParams[method]

\* One message per method that is missing or has the wrong arity.
RECURSIVE message_strings(_, _, _)
message_strings(model_object, meths, i) ==
    IF i > Len(meths) THEN <<>>
    ELSE LET method == meths[i]
             this == IF model_object[method] = Missing
                     THEN <<[method |-> method, problem |-> "missing"]>>
                     ELSE IF ~HasRequiredParamN(model_object[method], method)
                          THEN <<[method |-> method, problem |-> "arity"]>>
                          ELSE <<>>
         IN  this \o message_strings(model_object, meths, i + 1)

check_model_functionality(model_object, require_probabilities) ==
    message_strings(model_object, methods(require_probabilities), 1) = <<>>

check_model_functionality_warns(model_object, require_probabilities, suppress_warning) ==
    /\ ~check_model_functionality(model_object, require_probabilities)
    /\ ~suppress_warning

----------------------------------------------------------------------------
(* Blimey: validation of the constructor's input.                          *)

\* The number of columns: named fields, or the second dimension.
features_number(dataset) ==
    IF is_structured_array(dataset)
    THEN Len(dataset.fields)
    ELSE dataset.shape[2]

\* The first check of two (given as error or "None") that fails.
FirstError(e1, e2) == IF e1 # "None" THEN e1 ELSE e2

categorical_indices_error(dataset, categorical_indices) ==
    IF categorical_indices.t # "NoneType"
    THEN IF IsInstanceList(categorical_indices)
         THEN IF get_invalid_indices(dataset, categorical_indices.v) # {}
              THEN "IndexError"
              ELSE "None"
         ELSE "TypeError"
    ELSE "None"

class_names_error(class_names) ==
    IF class_names.t # "NoneType"
    THEN IF ~IsInstanceList(class_names)
         THEN "TypeError"
         ELSE IF \E i \in 1..Len(class_names.v) :
                    /\ class_names.v[i].t # "NoneType"
                    /\ ~IsInstanceStr(class_names.v[i])
              THEN "TypeError"
              ELSE "None"
    ELSE "None"

\* feature_names_error rejecting only the lists that are too long.
feature_names_error_too_long_only(dataset, feature_names) ==
    IF feature_names.t # "NoneType"
    THEN IF ~IsInstanceList(feature_names)
         THEN "TypeError"
         ELSE IF Len(feature_names.v) > features_number(dataset)
              THEN "ValueError"
              ELSE IF \E i \in 1..Len(feature_names.v) :
                         /\ feature_names.v[i].t # "NoneType"
                         /\ ~IsInstanceStr(feature_names.v[i])
                   THEN "TypeError"
                   ELSE "None"
    ELSE "None"

feature_names_error(dataset, feature_names) ==
    IF feature_names.t # "NoneType"
    THEN IF ~IsInstanceList(feature_names)
         THEN "TypeError"
         ELSE IF Len(feature_names.v) # features_number(dataset)
              THEN "ValueError"
              ELSE IF \E i \in 1..Len(feature_names.v) :
                         /\ feature_names.v[i].t # "NoneType"
                         /\ ~IsInstanceStr(feature_names.v[i])
                   THEN "TypeError"
                   ELSE "None"
    ELSE "None"

\* _input_is_valid with the class_names check moved before the
\* categorical_indices check.
_input_is_valid_class_names_first(a) ==
    IF ~is_2d_array(a.dataset) THEN "IncorrectShapeError"
    ELSE IF ~is_base_array(a.dataset) THEN "TypeError"
    ELSE IF ~check_model_functionality(a.global_model, TRUE)
         THEN "IncompatibleModelError"
    ELSE IF ~check_model_functionality(a.local_model, FALSE)
         THEN "IncompatibleModelError"
    ELSE FirstError(
            class_names_error(a.class_names),
         FirstError(
            categorical_indices_error(a.dataset, a.categorical_indices),
         FirstError(
            IF ~a.augmentor THEN "TypeError" ELSE "None",
         FirstError(
            IF ~a.discretizer THEN "TypeError" ELSE "None",
            feature_names_error(a.dataset, a.feature_names)))))

\* The error _input_is_valid raises, "None" when it returns True.
_input_is_valid(a) ==
    IF ~is_2d_array(a.dataset) THEN "IncorrectShapeError"
    ELSE IF ~is_base_array(a.dataset) THEN "TypeError"
    ELSE IF ~check_model_functionality(a.global_model, TRUE)
         THEN "IncompatibleModelError"
    ELSE IF ~check_model_functionality(a.local_model, FALSE)
         THEN "IncompatibleModelError"
    ELSE FirstError(
            categorical_indices_error(a.dataset, a.categorical_indices),
         FirstError(
            IF ~a.augmentor THEN "TypeError" ELSE "None",
         FirstError(
            IF ~a.discretizer THEN "TypeError" ELSE "None",
         FirstError(
            class_names_error(a.class_names),
            feature_names_error(a.dataset, a.feature_names)))))

----------------------------------------------------------------------------
(* Blimey.__init__.                                                        *)

\* No engine object exists (yet, or because the constructor raised).
NoEngine == [built |-> FALSE]

\* dataset.shape[1]; a 1-dimensional shape has no second entry.
HasShape1(array) == Len(array.shape) >= 2

\* The resolution keeping the declared indices only.
resolve_declared_only(cat_indices, categorical_indices) ==
    IF categorical_indices.t = "NoneType"
    THEN cat_indices
    ELSE Range(categorical_indices.v)

\* self.categorical_indices, as a set: the order of list(set) is not fixed.
resolve_categorical_indices(cat_indices, categorical_indices) ==
    IF categorical_indices.t = "NoneType"
    THEN cat_indices
    ELSE cat_indices \cup Range(categorical_indices.v)

widening_warns(cat_indices, categorical_indices) ==
    /\ categorical_indices.t # "NoneType"
    /\ cat_indices \ Range(categorical_indices.v) # {}

\* The warning of lines 262-269: a fixed text that names no column.
WideningWarning ==
    [category |-> "UserWarning", source |-> "Blimey.__init__", names |-> {}]

\* 'feature {}'.format(i) and 'class {}'.format(i).
default_feature_name(i) == "feature " \o ToString(i)
default_class_name(i) == "class " \o ToString(i)

\* The loops of lines 294-299 and 303-308 over a list of optional strings.
process_feature_names(names) ==
    [i \in 1..Len(names) |->
        IF names[i].t = "NoneType" THEN default_feature_name(i - 1)
        ELSE names[i].v]

process_class_names(names) ==
    [i \in 1..Len(names) |->
        IF names[i].t = "NoneType" THEN default_class_name(i - 1)
        ELSE names[i].v]

NoneList(n) == [i \in 1..n |-> PyNone]

\* The discretizer maps every cell to an integer bin: values below
\* BinWidth fall in bin 0, the others (1, 2, ...) in bin 1.
BinWidth == 1
discretize_value(v) == IF v < BinWidth THEN 0 ELSE 1
discretize(array) ==
    Array(array.shape, "i", <<>>,
          IF Len(array.shape) = 1
          THEN [i \in 1..Len(array.vals) |-> discretize_value(array.vals[i])]
          ELSE [r \in 1..Len(array.vals) |->
                   [i \in 1..Len(array.vals[r]) |->
                       discretize_value(array.vals[r][i])]])

\* The collaborator calls of the constructor, in order.
init_calls(a, categorical_indices) ==
    << [op |-> "augmentor",
        args |-> [dataset |-> a.dataset,
                  categorical_indices |-> categorical_indices,
                  kwargs |-> a.kwargs]],
       [op |-> "discretizer",
        args |-> [dataset |-> a.dataset,
                  categorical_indices |-> categorical_indices,
                  feature_names |-> a.feature_names,
                  kwargs |-> a.kwargs]],
       [op |-> "discretizer.discretize",
        args |-> [data |-> a.dataset]],
       [op |-> "global_model.predict_proba",
        args |-> [data |-> a.dataset]] >>

\* The outcome of Blimey(**a) when the collaborator call number fail raises
\* (fail = 0: none does).
init_outcome(a, fail) ==
    LET valid == _input_is_valid(a)
        cat_indices == Range(indices_by_type(a.dataset)[2])
        categorical_indices ==
            resolve_categorical_indices(cat_indices, a.categorical_indices)
        warns == IF widening_warns(cat_indices, a.categorical_indices)
                 THEN <<WideningWarning>> ELSE <<>>
        all_calls == init_calls(a, categorical_indices)
        n_classes == a.global_model.n_out
        feature_names ==
            IF a.feature_names.t = "NoneType"
            THEN NoneList(a.dataset.shape[2])
            ELSE a.feature_names.v
        class_names ==
            IF a.class_names.t = "NoneType"
            THEN NoneList(n_classes)
            ELSE a.class_names.v
    IN  IF valid # "None"
        THEN [error |-> valid, engine |-> NoEngine, calls |-> <<>>,
              warnings |-> IF is_2d_array_warns(a.dataset)
                           THEN <<[category |-> "UserWarning",
                                   source |-> "is_2d_array",
                                   names |-> {}]>>
                           ELSE <<>>]
        ELSE IF fail # 0
        THEN [error |-> "CollaboratorError", engine |-> NoEngine,
              calls |-> SubSeq(all_calls, 1, fail), warnings |-> warns]
        ELSE IF a.feature_names.t = "NoneType" /\ ~HasShape1(a.dataset)
        THEN [error |-> "IndexError", engine |-> NoEngine,
              calls |-> all_calls, warnings |-> warns]
        ELSE [error |-> "None",
              calls |-> all_calls,
              warnings |-> warns,
              engine |->
                [built |-> TRUE,
                 kwargs |-> a.kwargs,
                 dataset |-> a.dataset,
                 is_structured |-> is_structured_array(a.dataset),
                 categorical_indices |-> categorical_indices,
                 global_model |-> a.global_model,
                 augmentor |-> [dataset |-> a.dataset,
                                categorical_indices |-> categorical_indices,
                                kwargs |-> a.kwargs],
                 discretizer |-> [dataset |-> a.dataset,
                                  categorical_indices |-> categorical_indices,
                                  feature_names |-> a.feature_names,
                                  kwargs |-> a.kwargs],
                 discretized_dataset |-> discretize(a.dataset),
                 explainer_class |-> a.explainer,
                 n_classes |-> n_classes,
                 local_model |-> a.local_model,
                 indices |-> ColumnIndices(a.dataset),
                 feature_names |-> process_feature_names(feature_names),
                 class_names |-> process_class_names(class_names)]]

----------------------------------------------------------------------------
(* Blimey.explain_instance.                                                *)

\* _explain_instance_is_input_valid with the column count checked before
\* the type.
_explain_instance_is_input_valid_count_first(self, data_row, samples_number) ==
    IF ~is_1d_array(data_row) THEN "IncorrectShapeError"
    ELSE IF ~self.is_structured /\ data_row.shape[1] # self.dataset.shape[2]
         THEN "IncorrectShapeError"
    ELSE IF ~are_similar_dtype_arrays(self.dataset, data_row)
         THEN "TypeError"
    ELSE IF IsInstanceInt(samples_number)
         THEN IF samples_number.v < 1 THEN "ValueError" ELSE "None"
         ELSE "TypeError"

\* The error _explain_instance_is_input_valid raises, "None" when it
\* returns True.
_explain_instance_is_input_valid(self, data_row, samples_number) ==
    IF ~is_1d_array(data_row) THEN "IncorrectShapeError"
    ELSE IF ~are_similar_dtype_arrays(self.dataset, data_row)
         THEN "TypeError"
    ELSE IF ~self.is_structured /\ data_row.shape[1] # self.dataset.shape[2]
         THEN "IncorrectShapeError"
    ELSE IF IsInstanceInt(samples_number)
         THEN IF samples_number.v < 1 THEN "ValueError" ELSE "None"
         ELSE "TypeError"

\* Cell (r, f) is 1 when row r of the discretized neighbourhood has the
\* discretized instance's value in feature f, else 0.
similarity_binary_mask(discretized_sampled_data, discretized_data_row) ==
    [r \in 1..Len(discretized_sampled_data.vals) |->
        [f \in 1..Len(discretized_data_row.vals) |->
            IF discretized_sampled_data.vals[r][f]
                   = discretized_data_row.vals[f]
            THEN 1 ELSE 0]]

\* Lines 397-398: the design matrix of the local models.
binary_data_is_discretized_sample(discretized_sampled_data, discretized_data_row) ==
    discretized_sampled_data.vals

binary_data_of(discretized_sampled_data, discretized_data_row) ==
    similarity_binary_mask(discretized_sampled_data, discretized_data_row)

\* The global model's probabilities (in hundredths) for one sampled row:
\* every class but the last gets 10 * (class number + first cell), the last
\* one the rest of row_total.
predict_proba_row(row, n_out, row_total) ==
    [k \in 1..n_out |->
        IF k < n_out THEN 10 * (k + row[1])
        ELSE row_total - 10 * (((n_out - 1) * n_out) \div 2
                               + (n_out - 1) * row[1])]

predict_proba(global_model, data, row_total) ==
    [r \in 1..Len(data.vals) |->
        predict_proba_row(data.vals[r], global_model.n_out, row_total)]

\* prediction_probabilities[:, i] (i counted from 0).
column(matrix, i) == [r \in 1..Len(matrix) |-> matrix[r][i + 1]]

\* discretizer.feature_value_names: the discretizer labels the bins of the
\* features it does not treat as categorical.
feature_value_names_keys(self) ==
    {self.indices[i] : i \in 1..Len(self.indices)} \ self.categorical_indices

bin_label(index, bin) == [feature |-> index, bin |-> bin]

\* The labels taken from the plain feature names for every feature.
discretized_feature_names_plain(self, discretized_data_row) ==
    [i \in 1..Len(self.indices) |-> PyStr(self.feature_names[i])]

\* Lines 400-408: the labels of the features for the explainers.
discretized_feature_names(self, discretized_data_row) ==
    [i \in 1..Len(self.indices) |->
        IF self.indices[i] \in feature_value_names_keys(self)
        THEN bin_label(self.indices[i], discretized_data_row.vals[i])
        ELSE PyStr(self.feature_names[i])]

\* The calls before the loop with the neighbourhood discretized before the
\* global model is queried.
explain_head_calls_discretize_first(self, data_row, samples_number, sampled_data) ==
    << [op |-> "discretizer.discretize", args |-> [data |-> data_row]],
       [op |-> "augmentor.sample",
        args |-> [data_row |-> data_row, samples_number |-> samples_number,
                  kwargs |-> self.kwargs]],
       [op |-> "discretizer.discretize", args |-> [data |-> sampled_data]],
       [op |-> "global_model.predict_proba",
        args |-> [data |-> sampled_data]] >>

\* The collaborator calls made before the loop over the classes.
explain_head_calls(self, data_row, samples_number, sampled_data) ==
    << [op |-> "discretizer.discretize", args |-> [data |-> data_row]],
       [op |-> "augmentor.sample",
        args |-> [data_row |-> data_row, samples_number |-> samples_number,
                  kwargs |-> self.kwargs]],
       [op |-> "global_model.predict_proba",
        args |-> [data |-> sampled_data]],
       [op |-> "discretizer.discretize", args |-> [data |-> sampled_data]] >>

\* The local model constructed without the keyword configuration.
local_model_call_without_kwargs(self) ==
    [op |-> "local_model", args |-> <<>>]

\* Line 412: the construction of a local model.
local_model_call(self) ==
    [op |-> "local_model", args |-> [kwargs |-> self.kwargs]]

\* The loop body using for every class the local model and the explainer
\* made for class 0.
explain_class_calls_shared(self, i, binary_data, prediction_probabilities, names, discretized_data_row) ==
    LET local_model == [class |-> self.local_model, kwargs |-> self.kwargs,
                        instance |-> 0]
    IN  << local_model_call(self),
           [op |-> "local_model.fit",
            args |-> [self |-> local_model, X |-> binary_data,
                      y |-> column(prediction_probabilities, i)]],
           [op |-> "explainer",
            args |-> [dataset |-> self.dataset, local_model |-> local_model,
                      feature_names |-> names,
                      categorical_indices |-> self.categorical_indices,
                      kwargs |-> self.kwargs]],
           [op |-> "explainer.explain_instance",
            args |-> [self |-> 0, data_row |-> discretized_data_row,
                      kwargs |-> self.kwargs]] >>

\* The collaborator calls of the loop body for class i (counted from 0).
explain_class_calls(self, i, binary_data, prediction_probabilities, names, discretized_data_row) ==
    LET local_model == [class |-> self.local_model, kwargs |-> self.kwargs,
                        instance |-> i]
    IN  << local_model_call(self),
           [op |-> "local_model.fit",
            args |-> [self |-> local_model, X |-> binary_data,
                      y |-> column(prediction_probabilities, i)]],
           [op |-> "explainer",
            args |-> [dataset |-> self.dataset, local_model |-> local_model,
                      feature_names |-> names,
                      categorical_indices |-> self.categorical_indices,
                      kwargs |-> self.kwargs]],
           [op |-> "explainer.explain_instance",
            args |-> [self |-> i, data_row |-> discretized_data_row,
                      kwargs |-> self.kwargs]] >>

\* What the explainer of class i returns: the attribution of the local
\* model fitted for that class.
explanation_of(i, binary_data, prediction_probabilities) ==
    [local_model |-> i, X |-> binary_data,
     y |-> column(prediction_probabilities, i)]

\* d[key] = value on a dict kept as a sequence of <<key, value>> pairs in
\* insertion order.
dict_set(d, key, value) ==
    IF \E j \in 1..Len(d) : d[j][1] = key
    THEN [j \in 1..Len(d) |-> IF d[j][1] = key THEN <<key, value>> ELSE d[j]]
    ELSE Append(d, <<key, value>>)

dict_keys(d) == [j \in 1..Len(d) |-> d[j][1]]

\* The state of the loop of lines 411-423 after i iterations.
RECURSIVE explain_loop(_, _, _, _, _, _)
explain_loop(self, i, binary_data, prediction_probabilities, names, discretized_data_row) ==
    IF i = 0
    THEN [error |-> "None", calls |-> <<>>, blimey_explanation |-> <<>>]
    ELSE LET before == explain_loop(self, i - 1, binary_data,
                                    prediction_probabilities, names,
                                    discretized_data_row)
             these == explain_class_calls(self, i - 1, binary_data,
                                          prediction_probabilities, names,
                                          discretized_data_row)
         IN  IF before.error # "None" THEN before
             ELSE IF i > Len(prediction_probabilities[1])
             THEN [error |-> "IndexError",
                   calls |-> before.calls \o <<local_model_call(self)>>,
                   blimey_explanation |-> before.blimey_explanation]
             ELSE IF i > Len(self.class_names)
             THEN [error |-> "IndexError",
                   calls |-> before.calls \o these,
                   blimey_explanation |-> before.blimey_explanation]
             ELSE [error |-> "None",
                   calls |-> before.calls \o these,
                   blimey_explanation |->
                       dict_set(before.blimey_explanation,
                                self.class_names[i],
                                explanation_of(i - 1, binary_data,
                                               prediction_probabilities))]

\* A rejection that comes after the instance was discretized.
explain_rejected_after_discretize(error, warns, head) ==
    [error |-> error, calls |-> SubSeq(head, 1, 1), warnings |-> warns,
     ret |-> PyNone]

\* The assert of lines 387-388 raises: nothing was called, nothing returned.
explain_rejected(error, warns, head) ==
    [error |-> error, calls |-> <<>>, warnings |-> warns, ret |-> PyNone]

\* A collaborator failure that is caught: the classes explained before it
\* are returned.
collaborator_raised_swallowed(made, warns, partial) ==
    [error |-> "None", calls |-> made, warnings |-> warns,
     ret |-> [t |-> "dict", v |-> partial]]

\* A collaborator call raises: lines 389-425 have no try statement, so the
\* exception leaves explain_instance after the calls made so far.
collaborator_raised(made, warns, partial) ==
    [error |-> "CollaboratorError", calls |-> made, warnings |-> warns,
     ret |-> PyNone]

\* explain_instance keeping the discretized neighbourhood on the engine.
explain_instance_self_caching(self, sampled_data) ==
    [self EXCEPT !.discretized_dataset = discretize(sampled_data)]

\* explain_instance taking the class count anew, from the wrong axis of
\* the probabilities of the neighbourhood.
explain_instance_self_recounting(self, sampled_data) ==
    [self EXCEPT !.n_classes = Len(sampled_data.vals)]

\* The engine after an accepted explain_instance call: lines 389-425 work
\* on local names only and assign no attribute of self.
explain_instance_self(self, sampled_data) ==
    self

\* The outcome of self.explain_instance(data_row, samples_number) when the
\* sampler returns sampled_data, the rows of the global model's output
\* sum to row_total and the collaborator call number fail raises (fail = 0:
\* none does).
explain_outcome(self, data_row, samples_number, sampled_data, row_total, fail) ==
    LET valid == _explain_instance_is_input_valid(self, data_row,
                                                  samples_number)
        discretized_data_row == discretize(data_row)
        prediction_probabilities ==
            predict_proba(self.global_model, sampled_data, row_total)
        discretized_sampled_data == discretize(sampled_data)
        binary_data == binary_data_of(discretized_sampled_data,
                                      discretized_data_row)
        names == discretized_feature_names(self, discretized_data_row)
        head == explain_head_calls(self, data_row, samples_number,
                                   sampled_data)
        loop == explain_loop(self, self.n_classes, binary_data,
                             prediction_probabilities, names,
                             discretized_data_row)
        all_calls == head \o loop.calls
        warns == IF is_1d_array_warns(data_row)
                 THEN <<[category |-> "UserWarning", source |-> "is_1d_array",
                         names |-> {}]>>
                 ELSE <<>>
    IN  IF valid # "None"
        THEN explain_rejected(valid, warns, head)
        ELSE IF fail # 0 /\ fail <= Len(all_calls)
        THEN collaborator_raised(
                 SubSeq(all_calls, 1, fail), warns,
                 explain_loop(self, IF fail <= Len(head) THEN 0
                                    ELSE (fail - Len(head) - 1) \div 4,
                              binary_data, prediction_probabilities, names,
                              discretized_data_row).blimey_explanation)
        ELSE IF loop.error # "None"
        THEN [error |-> loop.error, calls |-> all_calls, warnings |-> warns,
              ret |-> PyNone]
        ELSE [error |-> "None", calls |-> all_calls, warnings |-> warns,
              ret |-> [t |-> "dict", v |-> loop.blimey_explanation]]

----------------------------------------------------------------------------
(* Blimey.explain_instance statement by statement: the frame of one call   *)
(* holds its arguments, its position pc, its local names, the collaborator *)
(* calls it has made and, once it is done, its outcome.                    *)

NoValue == <<>>

\* A thread that has not called explain_instance.
IdleFrame == [pc |-> "idle"]

\* The frame of self.explain_instance(data_row, samples_number) at its
\* first statement; the sampler will return sampler_returns.
CallFrame(data_row, samples_number, sampler_returns) ==
    [pc |-> "validate", data_row |-> data_row,
     samples_number |-> samples_number, sampler_returns |-> sampler_returns,
     discretized_data_row |-> NoValue, sampled_data |-> NoValue,
     prediction_probabilities |-> NoValue,
     discretized_sampled_data |-> NoValue, binary_data |-> NoValue,
     discretized_feature_names |-> NoValue, i |-> 0,
     blimey_explanation |-> NoValue, calls |-> <<>>, error |-> "None",
     ret |-> PyNone, overlapped |-> FALSE]

Raised(frame, error) == [frame EXCEPT !.pc = "done", !.error = error]

\* The frame after the statement at frame.pc.
explain_statement(self, frame) ==
    LET head == explain_head_calls(self, frame.data_row, frame.samples_number,
                                   frame.sampler_returns)
        these == explain_class_calls(self, frame.i, frame.binary_data,
                                     frame.prediction_probabilities,
                                     frame.discretized_feature_names,
                                     frame.discretized_data_row)
        called(c) == Append(frame.calls, c)
    IN  CASE frame.pc = "validate" ->
               LET valid == _explain_instance_is_input_valid(
                                self, frame.data_row, frame.samples_number)
               IN  IF valid # "None" THEN Raised(frame, valid)
                   ELSE [frame EXCEPT !.pc = "discretize_row"]
          [] frame.pc = "discretize_row" ->
               [frame EXCEPT !.pc = "sample", !.calls = called(head[1]),
                             !.discretized_data_row = discretize(frame.data_row)]
          [] frame.pc = "sample" ->
               [frame EXCEPT !.pc = "predict_proba", !.calls = called(head[2]),
                             !.sampled_data = frame.sampler_returns]
          [] frame.pc = "predict_proba" ->
               [frame EXCEPT !.pc = "discretize_sample",
                             !.calls = called(head[3]),
                             !.prediction_probabilities =
                                 predict_proba(self.global_model,
                                               frame.sampled_data, 100)]
          [] frame.pc = "discretize_sample" ->
               [frame EXCEPT !.pc = "mask", !.calls = called(head[4]),
                             !.discretized_sampled_data =
                                 discretize(frame.sampled_data)]
          [] frame.pc = "mask" ->
               [frame EXCEPT !.pc = "names",
                             !.binary_data =
                                 binary_data_of(frame.discretized_sampled_data,
                                                frame.discretized_data_row)]
          [] frame.pc = "names" ->
               [frame EXCEPT !.pc = "for", !.i = 0,
                             !.blimey_explanation = <<>>,
                             !.discretized_feature_names =
                                 discretized_feature_names(
                                     self, frame.discretized_data_row)]
          [] frame.pc = "for" ->
               IF frame.i < self.n_classes
               THEN [frame EXCEPT !.pc = "local_model"]
               ELSE [frame EXCEPT !.pc = "return"]
          [] frame.pc = "local_model" ->
               [frame EXCEPT !.pc = "fit",
                             !.calls = called(local_model_call(self))]
          [] frame.pc = "fit" ->
               IF frame.i + 1 > Len(frame.prediction_probabilities[1])
               THEN Raised(frame, "IndexError")
               ELSE [frame EXCEPT !.pc = "explainer",
                                  !.calls = called(these[2])]
          [] frame.pc = "explainer" ->
               [frame EXCEPT !.pc = "explain", !.calls = called(these[3])]
          [] frame.pc = "explain" ->
               [frame EXCEPT !.pc = "store", !.calls = called(these[4])]
          [] frame.pc = "store" ->
               IF frame.i + 1 > Len(self.class_names)
               THEN Raised(frame, "IndexError")
               ELSE [frame EXCEPT
                        !.pc = "for", !.i = frame.i + 1,
                        !.blimey_explanation =
                            dict_set(frame.blimey_explanation,
                                     self.class_names[frame.i + 1],
                                     explanation_of(
                                         frame.i, frame.binary_data,
                                         frame.prediction_probabilities))]
          [] frame.pc = "return" ->
               [frame EXCEPT !.pc = "done",
                             !.ret = [t |-> "dict",
                                      v |-> frame.blimey_explanation]]

\* explain_instance keeping the binary matrix in an attribute of the
\* engine instead of a local name.
explain_step_transient_attribute(self, frame) ==
    LET held == IF "binary_data" \in DOMAIN self
                THEN [frame EXCEPT !.binary_data = self.binary_data]
                ELSE frame
        after == explain_statement(self, held)
    IN  [self |-> [f \in DOMAIN self \cup {"binary_data"} |->
                      IF f = "binary_data" THEN after.binary_data
                      ELSE self[f]],
         frame |-> after]

\* One statement of a call: the engine and the frame after it.  Every name
\* the statements assign is local to the call.
explain_step(self, frame) ==
    [self |-> self, frame |-> explain_statement(self, frame)]

----------------------------------------------------------------------------
(* The inputs the model draws.                                             *)

MaxRows == 3

\* The sequences of length n with one entry y and the others x, and the
\* sequence of x only.
OneOff(n, x, y) ==
    {[i \in 1..n |-> x]}
    \cup {[i \in 1..n |-> IF i = j THEN y ELSE x] : j \in 1..n}

\* Plain arrays of one or two dimensions and structured arrays of one
\* dimension (and one of two dimensions), with integer ("i"), text ("U") and
\* object ("O") cells.
Datasets ==
    {Array(<<MaxRows>>, "i", <<>>, <<>>),
     Array(<<MaxRows, 1>>, "O", <<>>, <<>>)}
    \cup {Array(<<MaxRows, c>>, k, <<>>, <<>>) :
            c \in 1..MaxCols, k \in {"i", "U"}}
    \cup {Array(<<MaxRows>>, "V", f, <<>>) :
            f \in UNION {OneOff(c, "i", "U") : c \in 2..MaxCols}}
    \cup {Array(<<MaxRows>>, "V", <<"i">>, <<>>),
          Array(<<MaxRows>>, "V", <<"i", "O">>, <<>>),
          Array(<<MaxRows, 1>>, "V", <<"i">>, <<>>)}

\* The arrays given to indices_by_type: the datasets, arrays of three
\* dimensions, structured arrays of two dimensions with several fields and
\* structured arrays with a field that is itself structured.
ArrayInputs ==
    Datasets
    \cup {Array(<<MaxRows, 1, 1>>, "i", <<>>, <<>>),
          Array(<<MaxRows, 1>>, "V", <<"i", "U">>, <<>>),
          Array(<<MaxRows>>, "V", <<StructuredKind>>, <<>>)}
    \cup {Array(<<MaxRows>>, "V", f, <<>>) :
            f \in UNION {OneOff(c, "i", StructuredKind) \ {[i \in 1..c |-> "i"]} :
                            c \in 2..MaxCols}}

Arities == {Missing} \cup (0..MaxArity)

AllModels == {Model(f, p, pp, 1) : f \in Arities, p \in Arities, pp \in Arities}

GlobalModels ==
    {Model(2, 1, 1, n) : n \in 1..MaxClasses} \cup {Model(2, 1, Missing, 1)}

LocalModels == {Model(2, 1, Missing, 1), Model(2, 2, 1, 1)}

\* Declared categorical indices: None, a tuple, or a list of at most
\* MaxDeclared indices among the positions and the name of the last field.
IndexPool ==
    [i \in 1..MaxCols |-> PyInt(i - 1)] \o <<PyStr(FieldName(MaxCols - 1))>>

CategoricalIndicesInputs ==
    {PyNone, PyTuple(<<PyInt(0)>>)}
    \cup {PyList(SubSeqAt(IndexPool, pos, 1)) :
            pos \in {p \in SUBSET (1..Len(IndexPool)) :
                        Cardinality(p) <= MaxDeclared}}

ClassNamesInputs ==
    {PyNone, PyTuple(<<PyStr("a")>>), PyList(<<PyInt(7)>>)}
    \cup {PyList(s) : s \in SeqsUpTo({PyNone, PyStr("a")}, MaxClasses)}

FeatureNamesInputs ==
    {PyNone, PyTuple(<<PyStr("x")>>), PyList(<<PyInt(7)>>)}
    \cup {PyList(s) :
            s \in UNION {OneOff(c, PyNone, PyStr("x")) : c \in 1..MaxCols}}

\* The augmentor and discretizer arguments: is each a subclass of its
\* abstract class?
CollaboratorClasses == {<<TRUE, TRUE>>, <<FALSE, TRUE>>, <<TRUE, FALSE>>}

\* The keyword configurations (**kwargs) given to the constructor.
Kwargs == {"kw", "kw2"}

ConstructorArgs(dataset, classes, global_model, local_model, categorical_indices, class_names, feature_names, kwargs) ==
    [dataset |-> dataset, augmentor |-> classes[1],
     discretizer |-> classes[2], explainer |-> "explainer",
     global_model |-> global_model, local_model |-> local_model,
     categorical_indices |-> categorical_indices,
     class_names |-> class_names,
     feature_names |-> feature_names, kwargs |-> kwargs]

\* The arguments that stand for their kind when a model or a collaborator
\* class is invalid.
ProbeDatasets ==
    {Array(<<MaxRows, 1>>, "i", <<>>, <<>>),
     Array(<<MaxRows>>, "i", <<>>, <<>>),
     Array(<<MaxRows, 1>>, "O", <<>>, <<>>)}

ProbeCategoricalIndices ==
    {PyNone, PyTuple(<<PyInt(0)>>), PyList(<<PyStr(FieldName(MaxCols - 1))>>)}

ProbeClassNames == {PyNone, PyTuple(<<PyStr("a")>>), PyList(<<PyInt(7)>>)}

ProbeFeatureNames ==
    {PyNone, PyTuple(<<PyStr("x")>>), PyList(<<PyInt(7)>>),
     PyList(<<PyNone, PyNone>>)}

\* The instances offered to an engine: a 2-dimensional array, structured
\* rows, 1-dimensional arrays of zeros of every length with integer, float
\* or text cells, and the rows of the dataset's own type and width with at
\* most one cell that is not zero.
Zeros(c) == [i \in 1..c |-> 0]

DataRows(self) ==
    {Array(<<1, 1>>, "i", <<>>, <<<<0>>>>),
     Array(<<1>>, "V", <<"i">>, <<0>>),
     Array(<<1>>, "V", <<"i", "U">>, <<0, 0>>)}
    \cup {Array(<<c>>, k, <<>>, Zeros(c)) :
            c \in 1..MaxCols, k \in {"i", "f", "U"}}
    \cup (IF self.is_structured THEN {}
          ELSE {Array(<<self.dataset.shape[2]>>, self.dataset.kind, <<>>, v) :
                    v \in UNION {OneOff(self.dataset.shape[2], 0, x) :
                                    x \in 0..MaxVal}})

SamplesNumbers ==
    {PyInt(n) : n \in 0..MaxSamples} \cup {PyFloat(1), PyBool(TRUE)}

\* The rows the sampler may return for an instance: the instance itself or
\* the instance with one cell changed.
SampledRows(data_row) ==
    {data_row.vals}
    \cup {[data_row.vals EXCEPT ![i] = v] :
            i \in 1..Len(data_row.vals), v \in 0..MaxVal}

Neighbourhoods(data_row, n) ==
    {Array(<<n, Len(data_row.vals)>>, data_row.kind, <<>>, rows) :
        rows \in [1..n -> SampledRows(data_row)]}

\* What a sampler that returns the instance replicated n times returns.
Replicated(data_row, n) ==
    Array(<<n, Len(data_row.vals)>>, data_row.kind, <<>>,
          [r \in 1..n |-> data_row.vals])

\* What a sampler that moves the first cell of every copy returns.
Shifted(data_row, n) ==
    Array(<<n, Len(data_row.vals)>>, data_row.kind, <<>>,
          [r \in 1..n |->
              [data_row.vals EXCEPT ![1] = (data_row.vals[1] + r) % (MaxVal + 1)]])

\* The neighbourhoods drawn for one call: every neighbourhood for the
\* instance of zeros, a replicated and a shifted one for the others.
SamplerReturns(data_row, n) ==
    IF data_row.vals = Zeros(Len(data_row.vals))
    THEN Neighbourhoods(data_row, n)
    ELSE {Replicated(data_row, n), Shifted(data_row, n)}

\* The engine was built without categorical indices and without names.
Undeclared(args) ==
    /\ args.categorical_indices.t = "NoneType"
    /\ args.class_names.t = "NoneType"
    /\ args.feature_names.t = "NoneType"

\* The instances an engine built with declarations is asked to explain:
\* the ones it accepts among the row of zeros and the rows whose first
\* cell only is MaxVal.
DeclaredRows(self) ==
    {data_row \in DataRows(self) :
        /\ _explain_instance_is_input_valid(self, data_row, PyInt(1)) = "None"
        /\ data_row.vals[1] \in {0, MaxVal}
        /\ \A i \in 2..Len(data_row.vals) : data_row.vals[i] = 0}

\* The threads that call explain_instance on one engine.
Threads == {1, 2}

\* The sums of the rows of the global model's output, in hundredths; rows
\* that do not sum to 1 are drawn for the neighbourhoods of one row.
RowTotals == {100, 90}

\* The longest sequence of collaborator calls of one explain_instance.
ExplainCollaboratorCalls == 4 + 4 * MaxClasses

InitCollaboratorCalls == 4

----------------------------------------------------------------------------
(* State.                                                                  *)

NoCall == [op |-> "none", args |-> <<>>, error |-> "None", ret |-> PyNone]

Init ==
    /\ engine = NoEngine
    /\ last = NoCall
    /\ warnings = <<>>
    /\ calls = <<>>
    /\ history = <<>>
    /\ threads = [t \in Threads |-> IdleFrame]

\* A session starts with one call of the helper or of the constructor.
Fresh == last.op = "none"

\* fatf.utils.validation.check_model_functionality called on its own.
CheckModelFunctionality ==
    /\ Fresh
    /\ \E model \in AllModels, rp \in BOOLEAN, sw \in BOOLEAN :
        /\ last' = [op |-> "check_model_functionality",
                    args |-> [model |-> model, require_probabilities |-> rp,
                              suppress_warning |-> sw],
                    error |-> "None",
                    ret |-> PyBool(check_model_functionality(model, rp))]
        /\ warnings' = IF check_model_functionality_warns(model, rp, sw)
                       THEN <<[category |-> "UserWarning",
                               source |-> "check_model_functionality",
                               names |-> {m.method : m \in Range(
                                   message_strings(model, methods(rp), 1))}]>>
                       ELSE <<>>
        /\ calls' = <<>>
        /\ UNCHANGED <<engine, history, threads>>

\* ------------------------------------------------------------------
\* fatf.analyse.feature_importance
\* ------------------------------------------------------------------

\* The largest number of interpolation steps asked for.
MaxSteps == 3

\* The names feature_importance.py imports from fatf.utils.validation
\* (lines 15-18) and the functions validation.py defines.
ValidationImports ==
    {"is_2d_array", "check_model_functionality", "check_indices",
     "is_numerical_array"}

ValidationNames ==
    {"is_numerical_dtype", "is_numerical_array", "is_1d_array",
     "is_2d_array", "is_structured_array", "indices_by_type",
     "get_invalid_indices", "are_indices_valid",
     "check_model_functionality"}

\* import fatf.analyse.feature_importance: a from-import of a name the
\* module does not define raises ImportError.
import_feature_importance ==
    IF ValidationImports \subseteq ValidationNames THEN "None"
    ELSE "ImportError"

\* check_indices(X, f): the indices of f that are not columns of X.
check_indices(X, f) == get_invalid_indices(X, f)

\* Lines 31-55 with the default check_x, check_model and check_feature.
_check_input(X, model, feature, is_categorical) ==
    IF ~is_2d_array(X) THEN "IncorrectShapeException"
    ELSE IF ~check_model_functionality(model, TRUE)
    THEN "IncompatibleModelException"
    ELSE IF check_indices(X, <<feature>>) # {} THEN "CustomValueError"
    ELSE "None"

\* The position (from 1) of the column that feature names.
feature_position(X, feature) ==
    CHOOSE j \in 1..Len(ColumnIndices(X)) : ColumnIndices(X)[j] = feature

\* The kind of the cells of column j.
feature_kind(X, j) == IF X.fields # <<>> THEN X.fields[j] ELSE X.kind

\* X[:, feature] or X[feature]: the cells of column j.
feature_column(X, j) == [r \in 1..Len(X.vals) |-> X.vals[r][j]]

\* A value of np.unique or np.linspace is kept as the fraction n / d.
\* np.unique: the distinct values in ascending order (the cells of a text
\* column are numbered in the order of their texts).
RECURSIVE Ascending(_)
Ascending(S) ==
    IF S = {} THEN <<>>
    ELSE LET m == CHOOSE x \in S : \A y \in S : x <= y
         IN  <<m>> \o Ascending(S \ {m})

unique(feat) ==
    LET values == Ascending(Range(feat))
    IN  [k \in 1..Len(values) |-> [n |-> values[k], d |-> 1]]

\* np.linspace(start, stop, num): num evenly spaced numbers, each the
\* fraction n / d.
linspace(start, stop, num) ==
    LET d == IF num > 1 THEN num - 1 ELSE 1
    IN  [k \in 1..num |-> [n |-> start * d + (k - 1) * (stop - start),
                           d |-> d]]

\* min(feat) and max(feat).
min(feat) == CHOOSE x \in Range(feat) : \A y \in Range(feat) : x <= y
max(feat) == CHOOSE x \in Range(feat) : \A y \in Range(feat) : x >= y

\* A value stored in a cell of an integer column: a fraction is cut to its
\* integer part.
as_cell(value) == value.n \div value.d

\* X_sampled[i, :, feature] = values, X_sampled[i][feature] = values: the
\* values fill the steps cells when there are steps of them, one value
\* fills every cell, and any other number of values cannot be broadcast.
can_broadcast(values, steps) == Len(values) = steps \/ Len(values) = 1

\* The steps copies of row i of X with the values in column j.
sampled_rows(X, i, j, values, steps) ==
    [s \in 1..steps |->
        [X.vals[i] EXCEPT
            ![j] = as_cell(IF Len(values) = 1 THEN values[1]
                           ELSE values[s])]]

\* X_sampled as the sequence of its n blocks of steps rows.
sampled_blocks(X, j, values, steps) ==
    [i \in 1..Len(X.vals) |->
        IF X.fields # <<>>
        THEN Array(<<steps>>, X.kind, X.fields,
                   sampled_rows(X, i, j, values, steps))
        ELSE Array(<<steps, Len(X.vals[i])>>, X.kind, <<>>,
                   sampled_rows(X, i, j, values, steps))]

LoggedWarning ==
    [category |-> "logging.WARNING",
     source |-> "_interpolate_structured_array", names |-> {}]

\* Lines 57-91.
_interpolate_array(X, feature, is_categorical, steps) ==
    LET feat == feature_column(X, feature)
    IN  IF ~is_categorical /\ ~is_numerical_dtype(feature_kind(X, feature))
        THEN [error |-> "TypeError", X_sampled |-> <<>>, values |-> <<>>,
              warnings |-> <<>>]
        ELSE LET values == IF is_categorical THEN unique(feat)
                           ELSE linspace(min(feat), max(feat), steps)
             IN  IF ~can_broadcast(values, steps)
                 THEN [error |-> "ValueError", X_sampled |-> <<>>,
                       values |-> <<>>, warnings |-> <<>>]
                 ELSE [error |-> "None",
                       X_sampled |-> sampled_blocks(X, feature, values, steps),
                       values |-> values, warnings |-> <<>>]

\* Lines 93-145.
_interpolate_structured_array(X, feature, is_categorical, steps) ==
    LET feat == feature_column(X, feature)
        forced == ~is_numerical_dtype(feature_kind(X, feature))
                     /\ ~is_categorical
        categorical == is_categorical \/ forced
        values == IF categorical THEN unique(feat)
                  ELSE linspace(min(feat), max(feat), steps)
        warns == IF forced THEN <<LoggedWarning>> ELSE <<>>
    IN  IF ~can_broadcast(values, steps)
        THEN [error |-> "ValueError", X_sampled |-> <<>>, values |-> <<>>,
              warnings |-> warns]
        ELSE [error |-> "None",
              X_sampled |-> sampled_blocks(X, feature, values, steps),
              values |-> values, warnings |-> warns]

\* X[0:1]
first_row(X) ==
    IF X.fields # <<>>
    THEN Array(<<1>>, X.kind, X.fields, SubSeq(X.vals, 1, 1))
    ELSE Array(<<1, X.shape[2]>>, X.kind, <<>>, SubSeq(X.vals, 1, 1))

\* Lines 148-206: the outcome of
\* individual_conditional_expectation(X, model, feature, is_categorical,
\* steps): the exception raised, the shape of probs and the values
\* returned, and the arguments of the calls to model.predict_proba.
individual_conditional_expectation(X, model, feature, is_categorical, steps) ==
    LET invalid == _check_input(X, model, feature, is_categorical)
        n_classes == model.n_out
        is_structured == X.fields # <<>>
        j == feature_position(X, feature)
        steps_used == IF is_categorical
                      THEN Len(unique(feature_column(X, j)))
                      ELSE steps
        interpolated ==
            IF is_structured
            THEN _interpolate_structured_array(X, j, is_categorical,
                                               steps_used)
            ELSE _interpolate_array(X, j, is_categorical, steps_used)
        first == <<[op |-> "model.predict_proba",
                    args |-> [data |-> first_row(X)]]>>
    IN  IF invalid # "None"
        THEN [error |-> invalid, ret |-> PyNone, calls |-> <<>>,
              warnings |-> <<>>]
        ELSE IF interpolated.error # "None"
        THEN [error |-> interpolated.error, ret |-> PyNone, calls |-> first,
              warnings |-> interpolated.warnings]
        ELSE [error |-> "None",
              ret |-> PyTuple(<<[shape |-> <<Len(X.vals), steps_used,
                                            n_classes>>],
                                interpolated.values>>),
              calls |-> first \o
                  [i \in 1..Len(X.vals) |->
                      [op |-> "model.predict_proba",
                       args |-> [data |-> interpolated.X_sampled[i]]]],
              warnings |-> interpolated.warnings]

\* The data given to individual_conditional_expectation: n rows of c
\* columns, plain or structured, in which column f holds the cells col, of
\* integers or of text, and every other column the number of the row.
ICEArray(n, c, f, col, structured, kind) ==
    LET vals == [r \in 1..n |-> [k \in 1..c |-> IF k = f THEN col[r]
                                                ELSE r - 1]]
    IN  IF structured
        THEN Array(<<n>>, "V", [k \in 1..c |-> IF k = f THEN kind ELSE "i"],
                   vals)
        ELSE Array(<<n, c>>, kind, <<>>, vals)

\* individual_conditional_expectation(X, model, feature, is_categorical,
\* steps).  Data of one row are given every model and also a feature that
\* is no column; a feature declared categorical is given one number of
\* steps, which the function does not read.
IndividualConditionalExpectation ==
    /\ Fresh
    /\ \E n \in 1..MaxRows, c \in 1..MaxCols, structured \in BOOLEAN,
          kind \in {"i", "U"}, is_categorical \in BOOLEAN :
        \E f \in 1..c, col \in [1..n -> 0..MaxVal],
           steps \in IF is_categorical THEN {MaxSteps} ELSE 1..MaxSteps :
        \E X \in {ICEArray(n, c, f, col, structured, kind)} :
        \E model \in IF n = 1 THEN GlobalModels
                     ELSE {Model(2, 1, 1, MaxClasses)},
           feature \in {ColumnIndices(X)[f]}
                          \cup (IF n = 1 THEN {PyInt(c)} ELSE {}) :
        \E out \in {individual_conditional_expectation(
                        X, model, feature, is_categorical, steps)} :
            /\ last' = [op |-> "individual_conditional_expectation",
                        args |-> [X |-> X, model |-> model,
                                  feature |-> feature,
                                  is_categorical |-> is_categorical,
                                  steps |-> steps],
                        error |-> out.error, ret |-> out.ret]
            /\ warnings' = out.warnings
            /\ calls' = out.calls
            /\ UNCHANGED <<engine, history, threads>>

\* import fatf.analyse.feature_importance
ImportFeatureImportance ==
    /\ Fresh
    /\ last' = [op |-> "import fatf.analyse.feature_importance",
                args |-> <<>>, error |-> import_feature_importance,
                ret |-> PyNone]
    /\ warnings' = <<>>
    /\ calls' = <<>>
    /\ UNCHANGED <<engine, history, threads>>

\* ------------------------------------------------------------------
\* fatf.exceptions as exercised by fatf/tests/test_exceptons.py
\* ------------------------------------------------------------------

\* The custom exception classes the tests raise.
ExceptionClasses ==
    {"FATFException", "MissingImplementationError", "IncorrectShapeError",
     "IncompatibleModelError"}

\* The three raise statements of each test: the class itself, an instance
\* built without arguments and an instance built with a message.
RaiseForms == {"class", "instance", "message"}

Messages == {"Custom message.", "m", ""}

\* A raise statement that passes the class name as the only argument when
\* the class itself is raised.
exception_args_naming_class(cls, form, m) ==
    IF form = "message" THEN <<PyStr(m)>>
    ELSE IF form = "class" THEN <<PyStr(cls)>>
    ELSE <<>>

\* The arguments the raised instance is built with: `raise Cls` builds
\* Cls(), `raise Cls()` has no arguments, `raise Cls(m)` has the message.
exception_args(cls, form, m) ==
    IF form = "message" THEN <<PyStr(m)>> ELSE <<>>

\* str(exception): the classes define neither __init__ nor __str__, so the
\* string is the empty string without arguments and the string of the
\* only argument otherwise.
exception_str(cls, args) ==
    IF Len(args) = 0 THEN PyStr("") ELSE PyStr(args[1].v)

\* with pytest.raises(Cls) as exception_info: raise ...;
\* str(exception_info.value)
RaiseException ==
    /\ Fresh
    /\ \E cls \in ExceptionClasses, form \in RaiseForms, m \in Messages :
        /\ form # "message" => m = ""
        /\ last' = [op |-> "raise",
                    args |-> [cls |-> cls, form |-> form, m |-> m],
                    error |-> cls,
                    ret |-> exception_str(cls, exception_args(cls, form, m))]
        /\ warnings' = <<>>
        /\ calls' = <<>>
        /\ UNCHANGED <<engine, history, threads>>

\* fatf.utils.validation.indices_by_type called on its own.
IndicesByType ==
    /\ Fresh
    /\ \E array \in ArrayInputs :
        \E out \in {indices_by_type_outcome(array)} :
            /\ last' = [op |-> "indices_by_type", args |-> [array |-> array],
                        error |-> out.error, ret |-> out.ret]
            /\ warnings' = out.warnings
            /\ calls' = <<>>
            /\ UNCHANGED <<engine, history, threads>>

\* Blimey(dataset, augmentor, discretizer, explainer, global_model,
\*        local_model, categorical_indices, class_names, feature_names,
\*        **kwargs)
ConstructWith(a) ==
    LET valid == _input_is_valid(a) = "None"
    IN  \E fail \in IF valid THEN 0..InitCollaboratorCalls ELSE {0} :
            \E out \in {init_outcome(a, fail)} :
                /\ last' = [op |-> "Blimey.__init__", args |-> a,
                            error |-> out.error, ret |-> PyNone]
                /\ engine' = out.engine
                /\ warnings' = out.warnings
                /\ calls' = out.calls
                /\ history' = <<>>
                /\ UNCHANGED threads

\* The constructor is given every combination of dataset, categorical
\* indices, class names and feature names with valid models and
\* collaborator classes, and every combination of models, collaborator
\* classes and keyword configuration with representative values of the
\* other arguments.
Construct ==
    /\ Fresh
    /\ \/ \E d \in Datasets, n \in 1..MaxClasses,
             ci \in CategoricalIndicesInputs, cn \in ClassNamesInputs,
             fn \in FeatureNamesInputs :
            ConstructWith(ConstructorArgs(
                d, <<TRUE, TRUE>>, Model(2, 1, 1, n),
                Model(2, 1, Missing, 1), ci, cn, fn, "kw"))
       \/ \E d \in ProbeDatasets, cc \in CollaboratorClasses,
             gm \in GlobalModels, lm \in LocalModels,
             ci \in ProbeCategoricalIndices, cn \in ProbeClassNames,
             fn \in ProbeFeatureNames, kw \in Kwargs :
            ConstructWith(ConstructorArgs(d, cc, gm, lm, ci, cn, fn, kw))

\* One call engine.explain_instance(data_row, samples_number) in which the
\* sampler returns sampled_data, the rows of the global model's output sum
\* to row_total and the collaborator call number fail raises.
ExplainWith(data_row, samples_number, sampled_data, row_total, fail) ==
    LET args == [data_row |-> data_row, samples_number |-> samples_number,
                 sampled_data |-> sampled_data, row_total |-> row_total,
                 fail |-> fail]
        valid == _explain_instance_is_input_valid(engine, data_row,
                                                  samples_number) = "None"
    IN  \E out \in {explain_outcome(engine, data_row, samples_number,
                                    sampled_data, row_total, fail)} :
        /\ last' = [op |-> "Blimey.explain_instance", args |-> args,
                    error |-> out.error, ret |-> out.ret]
        /\ warnings' = out.warnings
        /\ calls' = out.calls
        /\ history' = Append(history, [args |-> args, error |-> last'.error,
                                       ret |-> last'.ret, calls |-> calls'])
        /\ engine' = IF valid THEN explain_instance_self(engine, sampled_data)
                      ELSE engine
        /\ UNCHANGED threads

\* engine.explain_instance(data_row, samples_number).  The call reads the
\* engine and its arguments only and leaves the engine as it is, so the
\* states reached by a second call on an engine are those of a first one;
\* each engine is followed through one call.
\* An engine built without declarations is given every instance, count
\* and neighbourhood; one built with categorical indices or names is given
\* the instances it accepts, a row of zeros with its own copy and another
\* row with MaxSamples shifted copies.
ExplainInstance ==
    /\ engine.built
    /\ last.op = "Blimey.__init__"
    /\ IF Undeclared(last.args)
       THEN \E data_row \in DataRows(engine),
               samples_number \in SamplesNumbers :
            LET valid == _explain_instance_is_input_valid(
                             engine, data_row, samples_number) = "None"
                n == IF valid THEN samples_number.v ELSE 1
            IN  \E sampled_data \in IF valid
                                     THEN SamplerReturns(data_row, n)
                                     ELSE {data_row},
                   row_total \in IF valid /\ n = 1 THEN RowTotals
                                 ELSE {100} :
                \E fail \in IF /\ valid
                                /\ n = 1
                                /\ row_total = 100
                                /\ data_row.vals = Zeros(Len(data_row.vals))
                                /\ sampled_data.vals = <<data_row.vals>>
                             THEN 0..ExplainCollaboratorCalls ELSE {0} :
                ExplainWith(data_row, samples_number, sampled_data,
                            row_total, fail)
       ELSE \E data_row \in DeclaredRows(engine) :
            IF data_row.vals = Zeros(Len(data_row.vals))
            THEN ExplainWith(data_row, PyInt(1), Replicated(data_row, 1),
                             100, 0)
            ELSE ExplainWith(data_row, PyInt(MaxSamples),
                             Shifted(data_row, MaxSamples), 100, 0)

Next ==
    \/ CheckModelFunctionality
    \/ IndicesByType
    \/ RaiseException
    \/ ImportFeatureImportance
    \/ IndividualConditionalExpectation
    \/ Construct
    \/ ExplainInstance

Spec == Init /\ [][Next]_vars

----------------------------------------------------------------------------
(* Sessions: an engine built on valid inputs and a sequence of at most     *)
(* MaxCalls explain_instance calls on it.                                  *)

MaxCalls == 3

\* The instances of a session: the rows of zeros of the dataset's width
\* and of one cell more, and the row of the dataset's width that starts
\* with MaxVal.
SessionRows(self) ==
    LET c == self.dataset.shape[2]
    IN  {Array(<<c>>, self.dataset.kind, <<>>, Zeros(c)),
         Array(<<c>>, self.dataset.kind, <<>>,
               [Zeros(c) EXCEPT ![1] = MaxVal]),
         Array(<<c + 1>>, self.dataset.kind, <<>>, Zeros(c + 1))}

\* The collaborator call that raises in a failing call of a session: the
\* fit of the first local model.
SessionFail == 6

Request(data_row, samples_number, sampled_data, fail) ==
    [data_row |-> data_row, samples_number |-> samples_number,
     sampled_data |-> sampled_data, fail |-> fail]

\* The requests of a session: on the row of zeros, one and MaxSamples
\* copies from a replicating sampler, a call in which a collaborator
\* raises, and a count of 0; on the row that starts with MaxVal, one copy
\* from a replicating sampler and MaxSamples rows from a shifting one; and
\* a row that is too wide.
SessionRequests(self) ==
    LET c == self.dataset.shape[2]
        k == self.dataset.kind
        zeros == Array(<<c>>, k, <<>>, Zeros(c))
        other == Array(<<c>>, k, <<>>, [Zeros(c) EXCEPT ![1] = MaxVal])
        wide == Array(<<c + 1>>, k, <<>>, Zeros(c + 1))
    IN  {Request(zeros, PyInt(1), Replicated(zeros, 1), 0),
         Request(zeros, PyInt(MaxSamples), Replicated(zeros, MaxSamples), 0),
         Request(zeros, PyInt(1), Replicated(zeros, 1), SessionFail),
         Request(zeros, PyInt(0), zeros, 0),
         Request(other, PyInt(1), Replicated(other, 1), 0),
         Request(other, PyInt(MaxSamples), Shifted(other, MaxSamples), 0),
         Request(wide, PyInt(1), wide, 0)}

ConstructSession ==
    /\ Fresh
    /\ \E c \in 1..MaxCols, n \in 1..MaxClasses :
          ConstructWith(ConstructorArgs(
              Array(<<MaxRows, c>>, "i", <<>>, <<>>), <<TRUE, TRUE>>,
              Model(2, 1, 1, n), Model(2, 1, Missing, 1),
              PyNone, PyNone, PyNone, "kw"))

ExplainSession ==
    /\ engine.built
    /\ Len(history) < MaxCalls
    /\ \E r \in SessionRequests(engine) :
          ExplainWith(r.data_row, r.samples_number, r.sampled_data, 100,
                      r.fail)

NextSession ==
    \/ ConstructSession
    \/ ExplainSession

SpecSession == Init /\ [][NextSession]_vars

----------------------------------------------------------------------------
(* Concurrent calls: every thread makes one explain_instance call on the   *)
(* engine, and the statements of the calls interleave.                     *)

Running(frame) == frame.pc \notin {"idle", "done"}

\* A thread calls engine.explain_instance(data_row, samples_number).
Call ==
    /\ engine.built
    /\ \E t \in Threads :
        /\ threads[t].pc = "idle"
        /\ \E data_row \in SessionRows(engine), k \in 1..MaxSamples :
            LET valid == _explain_instance_is_input_valid(
                             engine, data_row, PyInt(k)) = "None"
            IN  threads' = [threads EXCEPT ![t] =
                    CallFrame(data_row, PyInt(k),
                              IF valid THEN Shifted(data_row, k)
                              ELSE data_row)]
    /\ UNCHANGED <<engine, last, warnings, calls, history>>

\* A thread executes the statement it is at.
Step ==
    /\ \E t \in Threads :
        /\ Running(threads[t])
        /\ LET out == explain_step(engine, threads[t])
               overlapped == \/ threads[t].overlapped
                             \/ \E u \in Threads \ {t} : Running(threads[u])
           IN  /\ engine' = out.self
               /\ threads' = [threads EXCEPT
                                 ![t] = [out.frame EXCEPT
                                            !.overlapped = overlapped]]
    /\ UNCHANGED <<last, warnings, calls, history>>

NextThreads ==
    \/ ConstructSession
    \/ Call
    \/ Step

SpecThreads == Init /\ [][NextThreads]_vars

----------------------------------------------------------------------------
(* Properties.                                                             *)

AfterInit == last.op = "Blimey.__init__"
AfterExplain == last.op = "Blimey.explain_instance"
AfterCheck == last.op = "check_model_functionality"

\* The type of column i (counted from 1) of a 2-dimensional array.
ColumnKind(array, i) ==
    IF array.fields # <<>> THEN array.fields[i] ELSE array.kind

NumColumns(array) ==
    IF array.fields # <<>> THEN Len(array.fields) ELSE array.shape[2]

\* The indices of the columns that hold text.
TextTyped(array) ==
    {ColumnIndices(array)[i] : i \in {j \in 1..NumColumns(array) :
        ColumnKind(array, j) \notin _NUMPY_NUMERICAL_KINDS}}

Declared(a) ==
    IF a.categorical_indices.t = "list"
    THEN Range(a.categorical_indices.v) ELSE {}

\* The explanation call passed validation.
ExplainAccepted ==
    /\ AfterExplain
    /\ _explain_instance_is_input_valid(
           engine, last.args.data_row, last.args.samples_number) = "None"

\* The first entry of a sequence of check results that is an error.
FirstFailing(results) ==
    LET failing == {i \in 1..Len(results) : results[i] # "None"}
    IN  IF failing = {} THEN "None"
        ELSE results[CHOOSE i \in failing : \A j \in failing : i <= j]

Fails(cond, error) == IF cond THEN error ELSE "None"

\* C1: whenever explain_instance is given an instance and a samples_number
\* that pass its validation (and no collaborator raises), it returns a
\* mapping whose keys are the engine's configured class names, one key per
\* configured name, in the configured order.
C1_KeysAreClassNames ==
    (ExplainAccepted /\ last.args.fail = 0 /\ last.args.row_total = 100)
        => /\ last.error = "None"
           /\ last.ret.t = "dict"
           /\ dict_keys(last.ret.v) = engine.class_names

\* C2: after a successful construction the categorical index set is the
\* union of the indices of the text-typed columns and the declared indices.
C2_CategoricalUnion ==
    (AfterInit /\ last.error = "None")
        => /\ engine.categorical_indices
                = TextTyped(last.args.dataset) \cup Declared(last.args)
           /\ TextTyped(last.args.dataset) \subseteq engine.categorical_indices
           /\ Declared(last.args) \subseteq engine.categorical_indices

\* A heterogeneous table whose text column was not declared while another
\* column was: the resolved set holds both.
C2_Witness ==
    /\ AfterInit
    /\ last.error = "None"
    /\ engine.is_structured
    /\ Declared(last.args) # {}
    /\ TextTyped(last.args.dataset) \ Declared(last.args) # {}
    /\ Declared(last.args) \ TextTyped(last.args.dataset) # {}

\* The inputs of the constructor pass validation.
InputsValid(a) ==
    /\ is_2d_array(a.dataset)
    /\ is_base_array(a.dataset)
    /\ a.global_model.fit = 2 /\ a.global_model.predict = 1
    /\ a.global_model.predict_proba = 1
    /\ a.local_model.fit = 2 /\ a.local_model.predict = 1
    /\ a.augmentor /\ a.discretizer
    /\ categorical_indices_error(a.dataset, a.categorical_indices) = "None"
    /\ class_names_error(a.class_names) = "None"
    /\ feature_names_error(a.dataset, a.feature_names) = "None"

\* C3: given valid inputs (and collaborators that do not raise), the
\* constructor emits exactly one warning, which names the added columns,
\* and still succeeds when some text-typed column is absent from the
\* declared categorical set; it emits no warning when none is absent.
C3_OneNamingWarning ==
    (AfterInit /\ InputsValid(last.args) /\ last.error # "CollaboratorError")
        => LET added == TextTyped(last.args.dataset) \ Declared(last.args)
           IN  IF added # {} /\ last.args.categorical_indices.t = "list"
               THEN /\ Len(warnings) = 1
                    /\ warnings[1].category = "UserWarning"
                    /\ warnings[1].names = added
                    /\ last.error = "None"
                    /\ engine.built
               ELSE warnings = <<>>

\* C4: constructing the engine on a dataset of 3 rows and 2 columns whose
\* column 1 (and only it) is text-typed, with categorical_indices = [] and
\* the other inputs valid, succeeds with one warning and a resolved
\* categorical set that holds the index of column 1 only.
C4_Scenario ==
    (/\ AfterInit
     /\ InputsValid(last.args)
     /\ last.error # "CollaboratorError"
     /\ last.args.dataset.shape[1] = MaxRows
     /\ NumColumns(last.args.dataset) = 2
     /\ ColumnKind(last.args.dataset, 1) \in _NUMPY_NUMERICAL_KINDS
     /\ ColumnKind(last.args.dataset, 2) \in _NUMPY_TEXTUAL_KINDS
     /\ last.args.categorical_indices = PyList(<<>>))
        => /\ last.error = "None"
           /\ engine.built
           /\ Len(warnings) = 1
           /\ engine.categorical_indices = {ColumnIndices(last.args.dataset)[2]}

\* C5: when explain_instance rejects its input, no collaborator has been
\* called and the engine is as it was; samples_number = 0 with a valid
\* instance is rejected with ValueError.
C5_RejectsBeforeCollaborators ==
    /\ []((AfterExplain /\ ~ExplainAccepted)
            => /\ calls = <<>>
               /\ last.ret = PyNone
               /\ last.error \in {"IncorrectShapeError", "TypeError",
                                  "ValueError"})
    /\ []((/\ AfterExplain
            /\ last.args.samples_number = PyInt(0)
            /\ _explain_instance_is_input_valid(
                  engine, last.args.data_row, PyInt(1)) = "None")
            => (last.error = "ValueError" /\ calls = <<>>))
    /\ [][AfterExplain' /\ ~ExplainAccepted' => engine' = engine]_vars

\* samples_number = 0 with an instance of the dataset's shape and type.
C5_Witness ==
    /\ AfterExplain
    /\ last.args.samples_number = PyInt(0)
    /\ is_1d_array(last.args.data_row)
    /\ last.args.data_row.kind = engine.dataset.kind
    /\ last.args.data_row.shape[1] = engine.dataset.shape[2]
    /\ last.error = "ValueError"
    /\ calls = <<>>

\* Every input of the constructor but feature_names passes validation.
OtherInputsValid(a) ==
    /\ is_2d_array(a.dataset)
    /\ is_base_array(a.dataset)
    /\ a.global_model.fit = 2 /\ a.global_model.predict = 1
    /\ a.global_model.predict_proba = 1
    /\ a.local_model.fit = 2 /\ a.local_model.predict = 1
    /\ a.augmentor /\ a.discretizer
    /\ categorical_indices_error(a.dataset, a.categorical_indices) = "None"
    /\ class_names_error(a.class_names) = "None"

\* C6: a feature_names list whose length differs from the dataset's column
\* count (named fields, or the second dimension), the other inputs being
\* valid, makes the constructor raise ValueError and build no engine.
C6_FeatureNamesLength ==
    (/\ AfterInit
     /\ OtherInputsValid(last.args)
     /\ last.args.feature_names.t = "list"
     /\ Len(last.args.feature_names.v) # NumColumns(last.args.dataset))
        => /\ last.error = "ValueError"
           /\ ~engine.built
           /\ calls = <<>>

\* A list that is too short for a heterogeneous table.
C6_Witness ==
    /\ AfterInit
    /\ OtherInputsValid(last.args)
    /\ last.args.dataset.fields # <<>>
    /\ last.args.feature_names.t = "list"
    /\ Len(last.args.feature_names.v) < Len(last.args.dataset.fields)
    /\ last.error = "ValueError"
    /\ ~engine.built

\* C7: when a row of the global model's output on the neighbourhood does
\* not sum to 1, explain_instance raises IncompatibleModelError, returns
\* nothing and fits no local model.
C7_RowSumsChecked ==
    (ExplainAccepted /\ last.args.fail = 0 /\ last.args.row_total # 100)
        => /\ last.error = "IncompatibleModelError"
           /\ last.ret = PyNone
           /\ \A i \in 1..Len(calls) : calls[i].op # "local_model.fit"

\* The checks of the constructor in the order of the claim, and with the
\* two collaborator class checks the code makes.
ConstructorChecks(a, with_collaborators) ==
    LET two_d == is_2d_array(a.dataset)
        ci == a.categorical_indices
        cn == a.class_names
        fn == a.feature_names
    IN  << Fails(~two_d, "IncorrectShapeError"),
           Fails(~is_base_array(a.dataset), "TypeError"),
           Fails(~(a.global_model.fit = 2 /\ a.global_model.predict = 1
                   /\ a.global_model.predict_proba = 1),
                 "IncompatibleModelError"),
           Fails(~(a.local_model.fit = 2 /\ a.local_model.predict = 1),
                 "IncompatibleModelError"),
           Fails(ci.t \notin {"NoneType", "list"}, "TypeError"),
           Fails(ci.t = "list" /\ two_d
                    /\ ~(Range(ci.v) \subseteq Range(ColumnIndices(a.dataset))),
                 "IndexError"),
           Fails(with_collaborators /\ ~a.augmentor, "TypeError"),
           Fails(with_collaborators /\ ~a.discretizer, "TypeError"),
           Fails(cn.t \notin {"NoneType", "list"}
                    \/ (cn.t = "list"
                        /\ \E i \in 1..Len(cn.v) :
                              cn.v[i].t \notin {"NoneType", "str"}),
                 "TypeError"),
           Fails(fn.t \notin {"NoneType", "list"}, "TypeError"),
           Fails(fn.t = "list" /\ two_d
                    /\ Len(fn.v) # NumColumns(a.dataset), "ValueError"),
           Fails(fn.t = "list"
                    /\ \E i \in 1..Len(fn.v) :
                          fn.v[i].t \notin {"NoneType", "str"},
                 "TypeError") >>

\* C8 as claimed: the constructor raises the error of the earliest failing
\* check of the sequence dataset shape, dataset cells, global model, local
\* model, categorical_indices, class_names, feature_names, and calls no
\* collaborator when a check fails.
C8_ClaimedOrder ==
    AfterInit =>
        LET e == FirstFailing(ConstructorChecks(last.args, FALSE))
        IN  e # "None" => /\ last.error = e
                          /\ ~engine.built
                          /\ calls = <<>>

\* C8 as amended: the sequence also checks, between categorical_indices and
\* class_names, that the augmentor and then the discretizer are subclasses
\* of their abstract classes (TypeError); the constructor raises the error
\* of the earliest failing check and calls no collaborator, and when no
\* check fails the collaborators are instantiated.
C8_ValidationOrder ==
    AfterInit =>
        LET e == FirstFailing(ConstructorChecks(last.args, TRUE))
        IN  /\ e # "None" => /\ last.error = e
                             /\ ~engine.built
                             /\ calls = <<>>
            /\ e = "None" => calls # <<>>

\* An unknown categorical index together with a class name that is not a
\* string: the index error wins.
C8_Witness ==
    /\ AfterInit
    /\ is_2d_array(last.args.dataset)
    /\ categorical_indices_error(last.args.dataset,
                                 last.args.categorical_indices) = "IndexError"
    /\ class_names_error(last.args.class_names) = "TypeError"
    /\ last.error = "IndexError"
    /\ calls = <<>>

\* The model has the required methods with exactly the required numbers of
\* parameters without a default.
HasExactMethods(model, require_probabilities) ==
    /\ model.fit = 2
    /\ model.predict = 1
    /\ require_probabilities => model.predict_proba = 1

ExplainChecks(self, data_row, samples_number) ==
    << Fails(data_row.fields # <<>> \/ Len(data_row.shape) # 1,
             "IncorrectShapeError"),
       Fails(data_row.kind # self.dataset.kind
                \/ data_row.fields # self.dataset.fields, "TypeError"),
       Fails(self.dataset.fields = <<>>
                /\ data_row.shape[1] # NumColumns(self.dataset),
             "IncorrectShapeError"),
       Fails(samples_number.t \notin {"int", "bool"}, "TypeError"),
       Fails(samples_number.t \in {"int", "bool"} /\ samples_number.v < 1,
             "ValueError") >>

ExpectedName(names, i, prefix) ==
    IF names.t = "list" /\ i <= Len(names.v) /\ names.v[i].t = "str"
    THEN names.v[i].v
    ELSE prefix \o ToString(i - 1)

\* C11: for every dataset that passes the constructor's validation (the
\* other inputs being valid and no collaborator raising), homogeneous or
\* heterogeneous, the engine is built with one feature name per column and
\* one class name per class of the global model: the user's name where one
\* was given, 'feature i' or 'class i' otherwise, also when feature_names
\* or class_names is omitted.
C11_OneNamePerColumnAndClass ==
    (AfterInit /\ InputsValid(last.args) /\ last.error # "CollaboratorError")
        => /\ last.error = "None"
           /\ engine.built
           /\ Len(engine.feature_names) = NumColumns(last.args.dataset)
           /\ \A i \in 1..Len(engine.feature_names) :
                 engine.feature_names[i]
                     = ExpectedName(last.args.feature_names, i, "feature ")
           /\ Len(engine.class_names) = last.args.global_model.n_out
           /\ \A i \in 1..Len(engine.class_names) :
                 engine.class_names[i]
                     = ExpectedName(last.args.class_names, i, "class ")

\* The calls of the last operation to the collaborator method op.
CallsTo(op) == {i \in 1..Len(calls) : calls[i].op = op}

\* C12: in every accepted explain_instance call, the matrix given to each
\* local model's fit has one row per neighbourhood row and one column per
\* feature, and its cell (r, f) is 1 exactly when the discretized value of
\* neighbourhood row r in feature f equals the discretized value of the
\* instance in feature f, and 0 otherwise.
C12_BinarySimilarityMatrix ==
    ExplainAccepted =>
        \A c \in CallsTo("local_model.fit") :
            LET X == calls[c].args.X
                sample == last.args.sampled_data.vals
                instance == last.args.data_row.vals
            IN  /\ Len(X) = Len(sample)
                /\ \A r \in 1..Len(X) :
                      /\ Len(X[r]) = NumColumns(engine.dataset)
                      /\ \A f \in 1..Len(X[r]) :
                            /\ X[r][f] \in {0, 1}
                            /\ X[r][f] = 1
                                  <=> discretize_value(sample[r][f])
                                          = discretize_value(instance[f])

\* A neighbourhood of two rows: one differs from the instance in value but
\* not in bin (a row of 1s), the other differs in the bin of some feature.
C12_Witness ==
    /\ ExplainAccepted
    /\ CallsTo("local_model.fit") # {}
    /\ Len(last.args.sampled_data.vals) = 2
    /\ last.args.sampled_data.vals[1] # last.args.data_row.vals
    /\ \A c \in CallsTo("local_model.fit") :
          /\ \A f \in 1..Len(calls[c].args.X[1]) : calls[c].args.X[1][f] = 1
          /\ \E f \in 1..Len(calls[c].args.X[2]) : calls[c].args.X[2][f] = 0

\* The (binary matrix, probability column) pairs given to the local
\* models' fit in a sequence of collaborator calls, in call order.
FitInputs(cs) ==
    LET fits == SubSeqAt(cs, {i \in 1..Len(cs) : cs[i].op = "local_model.fit"}, 1)
    IN  [i \in 1..Len(fits) |-> <<fits[i].args.X, fits[i].args.y>>]

\* Call i of the history passed validation, was given the instance
\* replicated by the sampler, and no collaborator raised in it.
DeterministicCall(i) ==
    /\ history[i].error = "None"
    /\ history[i].args.fail = 0
    /\ history[i].args.sampled_data
          = Replicated(history[i].args.data_row,
                       history[i].args.samples_number.v)

\* C13: with a sampler that returns the instance replicated count times
\* (and the deterministic discretizer and global model), any two
\* explain_instance calls on one engine with the same instance and count,
\* whatever was called before or between them, give every class's local
\* model the same binary matrix and the same probability column.
C13_RepeatedCallsAgree ==
    \A i \in 1..Len(history), j \in 1..Len(history) :
        (/\ i < j
         /\ DeterministicCall(i)
         /\ DeterministicCall(j)
         /\ history[i].args.data_row = history[j].args.data_row
         /\ history[i].args.samples_number = history[j].args.samples_number)
            => /\ FitInputs(history[i].calls) = FitInputs(history[j].calls)
               /\ Len(FitInputs(history[j].calls)) = engine.global_model.n_out

\* The same request made twice with a different accepted request, on
\* another instance and count, in between.
C13_Witness ==
    /\ Len(history) = 3
    /\ DeterministicCall(1)
    /\ DeterministicCall(3)
    /\ history[2].error = "None"
    /\ history[1].args.data_row = history[3].args.data_row
    /\ history[1].args.samples_number = history[3].args.samples_number
    /\ history[2].args.data_row # history[1].args.data_row
    /\ history[2].args.samples_number # history[1].args.samples_number
    /\ engine.global_model.n_out > 1
    /\ FitInputs(history[1].calls) = FitInputs(history[3].calls)
    /\ FitInputs(history[1].calls) # FitInputs(history[2].calls)

\* C14: an explain_instance call, successful or failing, leaves every
\* attribute of the engine as the constructor set it: the dataset, the
\* categorical index set (never resolved again), the feature and class
\* names, the class count, the discretized dataset, the keyword
\* configuration, the models, the sampler, the discretizer and the
\* explainer class.
C14_EngineUnchanged ==
    [][(engine.built /\ AfterExplain')
          => /\ engine' = engine
             /\ engine'.dataset = engine.dataset
             /\ engine'.categorical_indices = engine.categorical_indices
             /\ engine'.feature_names = engine.feature_names
             /\ engine'.class_names = engine.class_names
             /\ engine'.n_classes = engine.n_classes
             /\ engine'.discretized_dataset = engine.discretized_dataset
             /\ engine'.kwargs = engine.kwargs
             /\ engine'.global_model = engine.global_model
             /\ engine'.local_model = engine.local_model
             /\ engine'.augmentor = engine.augmentor
             /\ engine'.discretizer = engine.discretizer
             /\ engine'.explainer_class = engine.explainer_class]_vars

\* A session of an accepted call, a call in which a collaborator raised
\* and a rejected call, after which the engine is as it was built.
C14_Witness ==
    /\ Len(history) = 3
    /\ engine.built
    /\ \E i \in 1..3 : history[i].error = "None"
    /\ \E i \in 1..3 : history[i].error = "CollaboratorError"
    /\ \E i \in 1..3 : history[i].error = "ValueError"
    /\ engine.discretized_dataset = discretize(engine.dataset)
    /\ engine.n_classes = engine.global_model.n_out

\* The outcome of the call of a frame when it runs alone on the engine.
Alone(frame) ==
    explain_outcome(engine, frame.data_row, frame.samples_number,
                    frame.sampler_returns, 100, 0)

\* C15: when explain_instance calls run concurrently on one engine (the
\* collaborators answering each call as they would alone), every call ends,
\* in every interleaving of their statements, with the result, the error
\* and the collaborator calls it has when run alone, and no statement of a
\* call changes the engine the other call reads.
C15_ConcurrentCallsIndependent ==
    /\ [](\A t \in Threads :
            threads[t].pc = "done"
                => /\ threads[t].ret = Alone(threads[t]).ret
                   /\ threads[t].error = Alone(threads[t]).error
                   /\ threads[t].calls = Alone(threads[t]).calls)
    /\ [][engine.built => engine' = engine]_vars

\* Two accepted calls with different instances and counts that ran
\* interleaved and have both returned their mappings.
C15_Witness ==
    /\ \A t \in Threads :
          /\ threads[t].pc = "done"
          /\ threads[t].overlapped
          /\ threads[t].error = "None"
          /\ threads[t].ret.t = "dict"
          /\ Len(threads[t].ret.v) = 2
    /\ threads[1].data_row # threads[2].data_row
    /\ threads[1].samples_number # threads[2].samples_number
    /\ threads[1].ret # threads[2].ret

\* The collaborator calls the last explain_instance call makes when no
\* collaborator raises.
UnfailingCalls ==
    explain_outcome(engine, last.args.data_row, last.args.samples_number,
                    last.args.sampled_data, last.args.row_total, 0).calls

\* C16: when a collaborator call of an accepted explain_instance call
\* raises, whichever call it is, the failing call is the last collaborator
\* call made, the failure reaches the caller and nothing is returned, not
\* even the explanations of the classes already explained.
C16_CollaboratorFailureAborts ==
    (/\ ExplainAccepted
     /\ last.args.fail # 0
     /\ last.args.fail <= Len(UnfailingCalls))
        => /\ last.error = "CollaboratorError"
           /\ last.ret = PyNone
           /\ Len(calls) = last.args.fail
           /\ calls[Len(calls)] = UnfailingCalls[last.args.fail]

\* The explainer of the second class raises after the first class was
\* explained.
C16_Witness ==
    /\ ExplainAccepted
    /\ engine.n_classes = 2
    /\ Len(engine.class_names) = 2
    /\ last.args.fail = 12
    /\ calls[8].op = "explainer.explain_instance"
    /\ calls[12].op = "explainer.explain_instance"
    /\ last.error = "CollaboratorError"
    /\ last.ret = PyNone

\* The collaborator calls the claim names, and those that are given the
\* keyword configuration.
ClaimedForwarded ==
    {"augmentor", "discretizer", "discretizer.discretize", "augmentor.sample",
     "local_model", "explainer", "explainer.explain_instance"}

Forwarded == ClaimedForwarded \ {"discretizer.discretize"}

\* The keyword configuration the engine was (or is being) constructed with.
Configuration == IF AfterInit THEN last.args.kwargs ELSE engine.kwargs

HasConfiguration(call) ==
    /\ "kwargs" \in DOMAIN call.args
    /\ call.args.kwargs = Configuration

\* C17 as claimed: the constructor's keyword configuration is given,
\* unchanged, to every call that constructs the sampler or the discretizer,
\* discretizes, samples, constructs a local model or an explainer, or asks
\* the explainer to explain (looked at after the operations that succeed).
C17_ClaimedForwarding ==
    ((AfterInit \/ AfterExplain) /\ last.error = "None")
        => \A i \in 1..Len(calls) :
              calls[i].op \in ClaimedForwarded => HasConfiguration(calls[i])

\* C17 as amended: the configuration is stored on the engine and given,
\* unchanged, to the construction of the sampler and of the discretizer, to
\* sample, to the construction of every local model and of every explainer
\* and to the explainer's explain call; discretize (like predict_proba and
\* fit) is called with the data only.
C17_KwargsForwarded ==
    /\ (AfterInit /\ engine.built) => engine.kwargs = last.args.kwargs
    /\ (AfterInit \/ AfterExplain)
        => \A i \in 1..Len(calls) :
              IF calls[i].op \in Forwarded
              THEN HasConfiguration(calls[i])
              ELSE "kwargs" \notin DOMAIN calls[i].args

\* A successful explanation of two classes on an engine constructed with
\* the second keyword configuration.
C17_Witness ==
    /\ AfterExplain
    /\ last.error = "None"
    /\ engine.kwargs = "kw2"
    /\ engine.n_classes = 2
    /\ {calls[i].op : i \in 1..Len(calls)} \cap Forwarded
          = {"augmentor.sample", "local_model", "explainer",
             "explainer.explain_instance"}
    /\ \A i \in 1..Len(calls) :
          calls[i].op \in Forwarded => calls[i].args.kwargs = "kw2"

AfterIndices == last.op = "indices_by_type"

\* The array is 2-dimensional by either convention: a plain array with two
\* axes, or a 1-dimensional array of records of several fields.
TwoDimensional(array) ==
    IF array.fields = <<>> THEN Len(array.shape) = 2
    ELSE Len(array.shape) = 1 /\ Len(array.fields) > 1

\* C18: for every 2-dimensional array indices_by_type returns the numerical
\* and the non-numerical column indices: two disjoint sets whose union is
\* the column set (field names, or positions 0..n-1), a column being
\* numerical exactly when its stored type is; for every other array,
\* structured ones with one field or with a 2-dimensional shape included,
\* it raises IncorrectShapeError.
C18_IndicesByType ==
    AfterIndices =>
        LET array == last.args.array
        IN  IF TwoDimensional(array)
            THEN /\ last.error = "None"
                 /\ LET numerical == Range(last.ret.v[1])
                        non_numerical == Range(last.ret.v[2])
                        columns == ColumnIndices(array)
                    IN  /\ numerical \cap non_numerical = {}
                        /\ numerical \cup non_numerical = Range(columns)
                        /\ Len(last.ret.v[1]) + Len(last.ret.v[2])
                              = NumColumns(array)
                        /\ \A i \in 1..NumColumns(array) :
                              columns[i] \in numerical
                                 <=> ColumnKind(array, i)
                                        \in _NUMPY_NUMERICAL_KINDS
            ELSE last.error = "IncorrectShapeError"

AfterRaise == last.op = "raise"

C20_OneRowClassCountQuery ==
    (AfterInit /\ last.error = "None") =>
        LET queries == CallsTo("global_model.predict_proba")
        IN  /\ Cardinality(queries) = 1
            /\ \A i \in queries : calls[i].args.data.shape[1] = 1
            /\ engine.n_classes = engine.global_model.n_out

\* The operations of a successful explain_instance call on an engine of n
\* classes, in the order the procedure gives them.
OrderedOps(n) ==
    [k \in 1..(4 + 4 * n) |->
        IF k = 1 THEN "discretizer.discretize"
        ELSE IF k = 2 THEN "augmentor.sample"
        ELSE IF k = 3 THEN "global_model.predict_proba"
        ELSE IF k = 4 THEN "discretizer.discretize"
        ELSE IF (k - 5) % 4 = 0 THEN "local_model"
        ELSE IF (k - 5) % 4 = 1 THEN "local_model.fit"
        ELSE IF (k - 5) % 4 = 2 THEN "explainer"
        ELSE "explainer.explain_instance"]

\* C21: in every successful explain_instance call the collaborator calls
\* are, in this order: discretize the instance, sample the neighbourhood,
\* predict_proba on the neighbourhood as sampled, discretize the
\* neighbourhood; then, the binary matrix being built, for each class 0,
\* 1, ..., n_classes - 1 in ascending order and once each: construct a
\* local model, fit it, construct an explainer, explain the discretized
\* instance.  The sampler and predict_proba are called once each,
\* discretize twice.
C21_CallOrder ==
    (AfterExplain /\ last.error = "None") =>
        LET n == engine.n_classes
            row == discretize(last.args.data_row)
            mask == similarity_binary_mask(discretize(last.args.sampled_data),
                                           row)
        IN  /\ Len(calls) = 4 + 4 * n
            /\ \A k \in 1..Len(calls) : calls[k].op = OrderedOps(n)[k]
            /\ calls[1].args.data = last.args.data_row
            /\ calls[3].args.data = last.args.sampled_data
            /\ calls[4].args.data = last.args.sampled_data
            /\ \A i \in 0..(n - 1) :
                 /\ calls[4 * i + 6].args.X = mask
                 /\ calls[4 * i + 6].args.self.instance = i
                 /\ calls[4 * i + 7].args.local_model.instance = i
                 /\ calls[4 * i + 8].args.self = i
                 /\ calls[4 * i + 8].args.data_row = row
            /\ Cardinality(CallsTo("augmentor.sample")) = 1
            /\ Cardinality(CallsTo("global_model.predict_proba")) = 1
            /\ Cardinality(CallsTo("discretizer.discretize")) = 2

\* A successful call on an engine of two classes with a neighbourhood that
\* differs from the instance.
C21_Witness ==
    /\ AfterExplain
    /\ last.error = "None"
    /\ engine.n_classes = 2
    /\ Len(calls) = 12
    /\ last.args.sampled_data.vals # <<last.args.data_row.vals>>
    /\ discretize(last.args.sampled_data) # last.args.sampled_data

\* The positions of the calls to op in the call sequence cs.
PositionsOf(cs, op) == {k \in 1..Len(cs) : cs[k].op = op}

\* In the call sequence cs of one explain_instance call h, every local
\* model that is fitted was constructed by the call just before, for the
\* class of that position, and is fitted there only, on the call's binary
\* matrix and that class's column of the call's probabilities.
FreshLocalModels(h) ==
    LET cs == h.calls
        mask == similarity_binary_mask(discretize(h.args.sampled_data),
                                       discretize(h.args.data_row))
        probabilities == predict_proba(engine.global_model,
                                       h.args.sampled_data, h.args.row_total)
    IN  \A k \in PositionsOf(cs, "local_model.fit") :
            LET c == cs[k].args.self.instance
            IN  /\ k > 1
                /\ cs[k - 1].op = "local_model"
                /\ c = Cardinality({j \in PositionsOf(cs, "local_model") :
                                       j < k}) - 1
                /\ \A j \in PositionsOf(cs, "local_model.fit") :
                      cs[j].args.self.instance = c => j = k
                /\ cs[k].args.X = mask
                /\ cs[k].args.y = column(probabilities, c)

\* Every explainer is constructed right after the fit of the local model
\* it is given, with the dataset as given to the engine and the engine's
\* categorical indices, is the only one given that local model, and is the
\* only one whose explain_instance is called for that class.
FreshExplainers(h) ==
    LET cs == h.calls
    IN  /\ \A k \in PositionsOf(cs, "explainer") :
              /\ k > 1
              /\ cs[k - 1].op = "local_model.fit"
              /\ cs[k].args.local_model = cs[k - 1].args.self
              /\ cs[k].args.dataset = engine.dataset
              /\ cs[k].args.categorical_indices = engine.categorical_indices
              /\ \A j \in PositionsOf(cs, "explainer") :
                    cs[j].args.local_model = cs[k].args.local_model => j = k
        /\ \A k \in PositionsOf(cs, "explainer.explain_instance") :
              /\ k > 1
              /\ cs[k - 1].op = "explainer"
              /\ cs[k].args.self = cs[k - 1].args.local_model.instance
              /\ \A j \in PositionsOf(cs, "explainer.explain_instance") :
                    cs[j].args.self = cs[k].args.self => j = k

\* C22: in every explain_instance call each class that is processed gets
\* a local model newly constructed for it in that call, fitted exactly
\* once on the call's binary matrix and the class's column of the call's
\* probabilities, and handed to exactly one explainer, newly constructed
\* for the class with the non-discretized dataset and the resolved
\* categorical indices; a call that returns does so for every class, so
\* each call constructs its own n_classes local models and explainers and
\* none is used for two classes or in two calls.
C22_FreshPerClassAndCall ==
    \A n \in 1..Len(history) :
        LET h == history[n]
        IN  /\ FreshLocalModels(h)
            /\ FreshExplainers(h)
            /\ h.error = "None" =>
                  \A op \in {"local_model", "local_model.fit", "explainer",
                             "explainer.explain_instance"} :
                      Cardinality(PositionsOf(h.calls, op)) = engine.n_classes

\* Two calls that returned on one engine of two classes.
C22_Witness ==
    /\ engine.built
    /\ engine.n_classes = 2
    /\ Len(history) >= 2
    /\ history[1].error = "None"
    /\ history[2].error = "None"
    /\ Len(history[2].calls) = 12

\* C23: the feature labels passed to every explainer of an explain_instance
\* call are a list with one entry per dataset column, in column order: the
\* discretizer's label of the bin the instance falls in where the
\* discretizer has a label mapping for the feature, the engine's plain
\* feature name of the column otherwise; every class is passed the same
\* list.
C23_FeatureLabels ==
    AfterExplain =>
        LET row == discretize(last.args.data_row)
            labelled == feature_value_names_keys(engine)
            columns == ColumnIndices(engine.dataset)
        IN  \A k \in CallsTo("explainer") :
                LET names == calls[k].args.feature_names
                IN  /\ Len(names) = NumColumns(engine.dataset)
                    /\ \A i \in 1..Len(names) :
                          IF columns[i] \in labelled
                          THEN names[i] = bin_label(columns[i], row.vals[i])
                          ELSE names[i] = PyStr(engine.feature_names[i])
                    /\ \A j \in CallsTo("explainer") :
                          calls[j].args.feature_names = names

\* A call that constructed two explainers on an engine with a labelled and
\* an unlabelled column, for an instance outside bin 0.
C23_Witness ==
    /\ AfterExplain
    /\ last.error = "None"
    /\ Cardinality(CallsTo("explainer")) = 2
    /\ NumColumns(engine.dataset) = 2
    /\ \E i, j \in 1..2 :
          /\ ColumnIndices(engine.dataset)[i] \in feature_value_names_keys(engine)
          /\ ColumnIndices(engine.dataset)[j] \notin feature_value_names_keys(engine)
          /\ discretize(last.args.data_row).vals[i] # 0

AfterICE == last.op = "individual_conditional_expectation"

\* The input passes the checks of the function and asks for an
\* interpolation that its feature allows: a text column of a plain array
\* is declared categorical.
ValidICEInput ==
    LET a == last.args
    IN  /\ _check_input(a.X, a.model, a.feature, a.is_categorical) = "None"
        /\ (a.X.fields = <<>> /\ a.X.kind \notin _NUMPY_NUMERICAL_KINDS)
              => a.is_categorical

\* C24: for every valid input individual_conditional_expectation returns
\* probabilities of shape [n_samples, steps, n_classes] and a values
\* sequence of length steps, steps being the number of distinct values of
\* the feature in X when the feature is treated as categorical, which
\* includes a non-numerical feature of a structured array that was not
\* declared categorical; in every sampled row only the chosen feature
\* differs from the original row.
C24_ICEShape ==
    (AfterICE /\ ValidICEInput) =>
        LET a == last.args
            j == feature_position(a.X, a.feature)
            categorical ==
                \/ a.is_categorical
                \/ /\ a.X.fields # <<>>
                   /\ a.X.fields[j] \notin _NUMPY_NUMERICAL_KINDS
            steps == IF categorical
                     THEN Cardinality(Range(feature_column(a.X, j)))
                     ELSE a.steps
        IN  /\ last.error = "None"
            /\ last.ret.v[1].shape
                  = <<Len(a.X.vals), steps, a.model.n_out>>
            /\ Len(last.ret.v[2]) = steps
            /\ Len(calls) = 1 + Len(a.X.vals)
            /\ \A i \in 1..Len(a.X.vals) :
                  LET block == calls[i + 1].args.data.vals
                  IN  /\ Len(block) = steps
                      /\ \A s \in 1..Len(block) :
                            \A k \in 1..Len(block[s]) :
                               k # j => block[s][k] = a.X.vals[i][k]

====
